---- MODULE Spec2Model ----
(***************************************************************************)
(* Model of the chat widget (ChatWidget component, handleSubmit and the    *)
(* stream consumption loop).  Each asynchronous invocation of handleSubmit *)
(* is a "turn" with its own locals (assistantMessage, fullContent,         *)
(* toolInvocations, currentToolCall); the React state (messages, input,    *)
(* isLoading) is shared, and the values a handler reads from its closure   *)
(* are those of the last render (view).                                    *)
(* The tools work on a document (doc), and the embedding API (init,        *)
(* destroy, update) mounts the widget into it.                             *)
(***************************************************************************)
EXTENDS Integers, Sequences, FiniteSets, TLC

\* ------------------------------------------------------------------ bounds
MaxTurns == 2
MaxEvents == 3
MaxTicks == 1
MaxCalls == 2
MaxOps == 3

\* ------------------------------------------------------- program constants
WelcomeId == 1
ClockStart == 10

WelcomeMessage == <<"H", "e", "l", "l", "o">>
FailureNotice == <<"S", "o", "r", "r", "y">>

\* ------------------------------------------------------------ input domains
Turns == 1..MaxTurns
Inputs == {<<" ">>, <<" ", "h", "i", " ">>}
Texts == {<<>>, <<"H", "i">>, <<"!">>}
ToolIds == {"t1", "t2"}
ToolNames == {"searchElements"}
Outputs == {"ok"}
NoResult == "none"

\* messages, input, isLoading: the React state of the component
\* view: the state values the handlers of the last render close over
\* turns: the locals of each handleSubmit invocation that passed the guard
\*        (slot: index of its placeholder in messages; expected: the texts of
\*        its text-delta events, concatenated; request: the messages it sent)
\* started: number of such invocations; clock: the last value Date.now() gave
\* delivered: number of stream parts processed so far, over all turns
\* last: the handler step taken last
VARIABLES messages, input, isLoading, view, turns, started, clock, delivered, last

\* tools: the tools prop of the component
\* doc: the document of the host page; timers: the setTimeout callbacks set so far
\* call: the tool executed last and its input; result: what it gave its
\* caller; calls: the number of tool executions
VARIABLES tools, doc, timers, call, result, calls

\* root, container: the fields of ChatWidgetSDK (NoRoot, 0: null)
\* invoked: the calls of the embedding API made so far, in order
VARIABLES root, container, invoked

chat == <<messages, input, isLoading, view, turns, started, clock, delivered, last>>
page == <<doc, timers, call, result, calls>>
sdk == <<root, container, invoked>>
vars == <<chat, tools, page, sdk>>

\* ----------------------------------------------------------------- helpers
RECURSIVE TrimStart(_)
TrimStart(s) ==
  IF s = <<>> THEN <<>>
  ELSE IF Head(s) = " " THEN TrimStart(Tail(s)) ELSE s

RECURSIVE TrimEnd(_)
TrimEnd(s) ==
  IF s = <<>> THEN <<>>
  ELSE IF s[Len(s)] = " " THEN TrimEnd(SubSeq(s, 1, Len(s) - 1)) ELSE s

Trim(s) == TrimEnd(TrimStart(s))

\* ------------------------------------------------- strings of the host page
\* (a string is the sequence of its characters)
s_html == <<"h", "t", "m", "l">>
s_head == <<"h", "e", "a", "d">>
s_body == <<"b", "o", "d", "y">>
s_ul == <<"u", "l">>
s_li == <<"l", "i">>
s_p == <<"p">>
s_div == <<"d", "i", "v">>
s_button == <<"b", "u", "t", "t", "o", "n">>
s_svg == <<"s", "v", "g">>
s_style == <<"s", "t", "y", "l", "e">>
s_id == <<"i", "d">>
s_class == <<"c", "l", "a", "s", "s">>
s_title == <<"t", "i", "t", "l", "e">>
s_intro == <<"i", "n", "t", "r", "o">>
s_note == <<"n", "o", "t", "e">>
s_list == <<"l", "i", "s", "t">>
s_listItems == <<"l", "i", "s", "t", " ", "i", "t", "e", "m", "s">>
s_Apples == <<"A", "p", "p", "l", "e", "s">>
s_border == <<"b", "o", "r", "d", "e", "r">>
s_thin == <<"1", "p", "x", " ", "s", "o", "l", "i", "d">>
s_Bread == <<"B", "r", "e", "a", "d">>
s_chatWidget == <<"c", "h", "a", "t", "-", "w", "i", "d", "g", "e", "t">>
s_chatWidgetRoot == <<"c", "h", "a", "t", "-", "w", "i", "d", "g", "e", "t", "-", "r", "o", "o", "t">>
s_chatWidgetContainer == <<"c", "h", "a", "t", "-", "w", "i", "d", "g", "e", "t", "-", "c", "o", "n", "t", "a", "i", "n", "e", "r">>
s_chatToggle == <<"c", "h", "a", "t", "-", "t", "o", "g", "g", "l", "e">>
s_chatWidgetAnimations == <<"c", "h", "a", "t", "-", "w", "i", "d", "g", "e", "t", "-", "a", "n", "i", "m", "a", "t", "i", "o", "n", "s">>
s_bottomRight == <<"b", "o", "t", "t", "o", "m", "-", "r", "i", "g", "h", "t">>
s_light == <<"l", "i", "g", "h", "t">>
s_message == <<"m", "e", "s", "s", "a", "g", "e">>

\* ------------------------------------------------------ strings (JavaScript)
UpperCase == <<"A", "B", "C", "D", "E", "F", "G", "H", "I", "J", "K", "L", "M",
               "N", "O", "P", "Q", "R", "S", "T", "U", "V", "W", "X", "Y", "Z">>
LowerCase == <<"a", "b", "c", "d", "e", "f", "g", "h", "i", "j", "k", "l", "m",
               "n", "o", "p", "q", "r", "s", "t", "u", "v", "w", "x", "y", "z">>
Digits == <<"0", "1", "2", "3", "4", "5", "6", "7", "8", "9">>

Range(s) == {s[i] : i \in DOMAIN s}

LowerOf == [c \in Range(UpperCase) |->
              LowerCase[CHOOSE k \in DOMAIN UpperCase : UpperCase[k] = c]]

toLowerCase(s) == [i \in DOMAIN s |-> IF s[i] \in DOMAIN LowerOf THEN LowerOf[s[i]] ELSE s[i]]

includes(s, sub) ==
  \E i \in 0..(Len(s) - Len(sub)) : SubSeq(s, i + 1, i + Len(sub)) = sub

startsWith(s, prefix) ==
  Len(prefix) <= Len(s) /\ SubSeq(s, 1, Len(prefix)) = prefix

\* s.substring(0, n)
substring(s, n) == SubSeq(s, 1, IF n < Len(s) THEN n ELSE Len(s))

RECURSIVE split(_, _)
split(s, sep) ==
  LET at == {k \in DOMAIN s : s[k] = sep}
  IN  IF at = {} THEN <<s>>
      ELSE LET i == CHOOSE k \in at : \A j \in at : k <= j
           IN  <<SubSeq(s, 1, i - 1)>> \o split(SubSeq(s, i + 1, Len(s)), sep)

RECURSIVE join(_, _)
join(parts, sep) ==
  IF parts = <<>> THEN <<>>
  ELSE IF Len(parts) = 1 THEN parts[1]
  ELSE parts[1] \o sep \o join(Tail(parts), sep)

\* `${n}` for n >= 0
RECURSIVE String(_)
String(n) ==
  IF n < 10 THEN <<Digits[n + 1]>>
  ELSE String(n \div 10) \o <<Digits[(n % 10) + 1]>>

\* array.slice(0, end)
slice(arr, end) ==
  LET to == IF end < 0 THEN (IF Len(arr) + end < 0 THEN 0 ELSE Len(arr) + end)
            ELSE IF end > Len(arr) THEN Len(arr) ELSE end
  IN  SubSeq(arr, 1, to)

\* the items of a sequence, each once, in the order of their first occurrence
RECURSIVE Unique(_)
Unique(s) ==
  IF s = <<>> THEN <<>>
  ELSE LET r == Unique(SubSeq(s, 1, Len(s) - 1))
       IN  IF s[Len(s)] \in Range(r) THEN r ELSE Append(r, s[Len(s)])

\* --------------------------------------------------------- the document tree
\* A document is the sequence of the nodes created so far; a node is named
\* by its index.  Node 1 is the document itself.  kids: the child nodes in
\* order; parent: 0 for the document and for a node that has no parent.
Root == 1
NoAttrs == [a \in {} |-> <<>>]

DocumentNode(kids) ==
  [kind |-> "document", tag |-> <<>>, attrs |-> NoAttrs, data |-> <<>>,
   kids |-> kids, parent |-> 0, html |-> FALSE, style |-> NoAttrs]

ElementNode(tag, attrs, kids, parent, html) ==
  [kind |-> "element", tag |-> tag, attrs |-> attrs, data |-> <<>>,
   kids |-> kids, parent |-> parent, html |-> html, style |-> NoAttrs]

TextNode(data, parent) ==
  [kind |-> "text", tag |-> <<>>, attrs |-> NoAttrs, data |-> data,
   kids |-> <<>>, parent |-> parent, html |-> FALSE, style |-> NoAttrs]

\* el.classList: the class attribute is kept as the list of its tokens
classList(el) == IF s_class \in DOMAIN el.attrs THEN el.attrs[s_class] ELSE <<>>

\* the tokens of a class attribute value
Tokens(value) == Unique(SelectSeq(split(value, " "), LAMBDA t : t # <<>>))

\* el.className
className(el) == join(classList(el), <<" ">>)

getAttribute(el, name) ==
  IF name = s_class THEN className(el)
  ELSE IF name \in DOMAIN el.attrs THEN el.attrs[name] ELSE <<>>

\* the nodes below the nodes of stack, in document order
RECURSIVE Preorder(_, _)
Preorder(d, stack) ==
  IF stack = <<>> THEN <<>>
  ELSE <<Head(stack)>> \o Preorder(d, d[Head(stack)].kids \o Tail(stack))

\* every element of the document, in document order
AllElements(d) == SelectSeq(Preorder(d, <<Root>>), LAMBDA n : d[n].kind = "element")

\* node.textContent
textContent(d, n) ==
  LET ns == Preorder(d, <<n>>)
  IN  join([i \in DOMAIN ns |-> d[ns[i]].data], <<>>)

\* el.parentElement: the parent if it is an element, or 0
parentElement(d, n) ==
  IF d[n].parent # 0 /\ d[d[n].parent].kind = "element" THEN d[n].parent ELSE 0

\* parent.children
children(d, n) == SelectSeq(d[n].kids, LAMBDA k : d[k].kind = "element")

IndexOf(s, x) == IF x \in Range(s) THEN CHOOSE i \in DOMAIN s : s[i] = x ELSE 0

\* Array.from(el.childNodes).filter(TEXT_NODE).map(trim).filter(text => text).join(' ')
directText(d, n) ==
  LET texts == SelectSeq(d[n].kids, LAMBDA k : d[k].kind = "text")
      trimmed == [i \in DOMAIN texts |-> Trim(d[texts[i]].data)]
  IN  join(SelectSeq(trimmed, LAMBDA t : t # <<>>), <<" ">>)

\* ------------------------------------------------------------- CSS selectors
Letters == Range(UpperCase) \cup Range(LowerCase) \cup {"_"}
IdentChars == Letters \cup Range(Digits) \cup {"-"}

IsIdent(s) ==
  /\ s # <<>>
  /\ s[1] \in Letters \/ (s[1] = "-" /\ Len(s) > 1 /\ s[2] \in Letters)
  /\ \A i \in DOMAIN s : s[i] \in IdentChars

Simple(kind, name) == [kind |-> kind, name |-> name]

\* the selectors of one compound: *, tag, #id, .class, [attribute]
ParseSimple(s) ==
  IF s = <<"*">> THEN Simple("universal", <<>>)
  ELSE IF IsIdent(s) THEN Simple("type", s)
  ELSE IF Len(s) > 1 /\ s[1] = "#" /\ IsIdent(Tail(s)) THEN Simple("id", Tail(s))
  ELSE IF Len(s) > 1 /\ s[1] = "." /\ IsIdent(Tail(s)) THEN Simple("class", Tail(s))
  ELSE IF Len(s) > 2 /\ s[1] = "[" /\ s[Len(s)] = "]" /\ IsIdent(SubSeq(s, 2, Len(s) - 1))
       THEN Simple("attribute", SubSeq(s, 2, Len(s) - 1))
  ELSE Simple("invalid", s)

\* a selector is a chain of simple selectors joined by the descendant
\* combinator; anything else is a syntax error of the engine
ParseSelector(s) ==
  LET words == SelectSeq(split(s, " "), LAMBDA w : w # <<>>)
  IN  [i \in DOMAIN words |-> ParseSimple(words[i])]

IsValidSelector(s) ==
  LET chain == ParseSelector(s)
  IN  chain # <<>> /\ \A i \in DOMAIN chain : chain[i].kind # "invalid"

MatchesSimple(el, sel) ==
  el.kind = "element" /\
  CASE sel.kind = "universal" -> TRUE
    [] sel.kind = "type" -> IF el.html THEN el.tag = toLowerCase(sel.name)
                                       ELSE el.tag = sel.name
    [] sel.kind = "id" -> getAttribute(el, s_id) = sel.name
    [] sel.kind = "class" -> sel.name \in Range(classList(el))
    [] sel.kind = "attribute" -> sel.name \in DOMAIN el.attrs
    [] OTHER -> FALSE

\* n matches the last selector of the chain and has ancestors matching the
\* selectors before it, in order
RECURSIVE HasAncestors(_, _, _)
HasAncestors(d, n, chain) ==
  IF chain = <<>> THEN TRUE
  ELSE IF n = 0 THEN FALSE
  ELSE \/ /\ MatchesSimple(d[n], chain[Len(chain)])
          /\ HasAncestors(d, d[n].parent, SubSeq(chain, 1, Len(chain) - 1))
       \/ HasAncestors(d, d[n].parent, chain)

Matches(d, n, chain) ==
  /\ MatchesSimple(d[n], chain[Len(chain)])
  /\ HasAncestors(d, d[n].parent, SubSeq(chain, 1, Len(chain) - 1))

\* document.querySelectorAll(selector), for a selector that parses
MatchAll(d, chain) == SelectSeq(AllElements(d), LAMBDA n : Matches(d, n, chain))
querySelectorAll(d, selector) ==
  CHOOSE found \in {MatchAll(d, chain) : chain \in {ParseSelector(selector)}} : TRUE

\* document.getElementById(value)
getElementById(d, value) ==
  LET found == SelectSeq(AllElements(d), LAMBDA n : getAttribute(d[n], s_id) = value)
  IN  IF value = <<>> \/ found = <<>> THEN 0 ELSE found[1]

\* el.closest(selector): the nearest of el and its ancestors that matches, or 0
RECURSIVE closest(_, _, _)
closest(d, n, chain) ==
  IF n = 0 THEN 0
  ELSE IF Matches(d, n, chain) THEN n
  ELSE closest(d, d[n].parent, chain)

\* el.closest('.chat-widget-container')
WidgetSelector == ParseSelector(<<".">> \o s_chatWidgetContainer)
InWidget(d, n) == closest(d, n, WidgetSelector) # 0

\* --------------------------------------------------------------- the host page
\* <html><head></head><body>
\*   <ul><li>Apples</li><li>Bread</li></ul>
\*   <p id="intro" class="note" style="border: 1px solid">list</p>
\*   <div id="chat-widget-root">                      (the mount point)
\*     <div class="chat-widget-container bottom-right light">
\*       <button class="chat-toggle"><svg/></button>
\*       <div class="message">Hello</div>     (wrappers of the message left out)
\*     </div></div></body></html>
HostPage ==
  << DocumentNode(<<2>>),
     ElementNode(s_html, NoAttrs, <<3, 4>>, 1, TRUE),
     ElementNode(s_head, NoAttrs, <<>>, 2, TRUE),
     ElementNode(s_body, NoAttrs, <<5, 10, 12>>, 2, TRUE),
     ElementNode(s_ul, NoAttrs, <<6, 8>>, 4, TRUE),
     ElementNode(s_li, NoAttrs, <<7>>, 5, TRUE),
     TextNode(s_Apples, 6),
     ElementNode(s_li, NoAttrs, <<9>>, 5, TRUE),
     TextNode(s_Bread, 8),
     [ElementNode(s_p, (s_id :> s_intro) @@ (s_class :> <<s_note>>), <<11>>, 4, TRUE)
        EXCEPT !.style = (s_border :> s_thin)],
     TextNode(s_list, 10),
     ElementNode(s_div, (s_id :> s_chatWidgetRoot), <<13>>, 4, TRUE),
     ElementNode(s_div, (s_class :> <<s_chatWidgetContainer, s_bottomRight, s_light>>),
                 <<14, 16>>, 12, TRUE),
     ElementNode(s_button, (s_class :> <<s_chatToggle>>), <<15>>, 13, TRUE),
     ElementNode(s_svg, NoAttrs, <<>>, 14, FALSE),
     ElementNode(s_div, (s_class :> <<s_message>>), <<17>>, 13, TRUE),
     TextNode(WelcomeMessage, 16) >>

\* ------------------------------------------------------- the context summary
s_input == <<"i", "n", "p", "u", "t">>
s_value == <<"v", "a", "l", "u", "e">>
s_commonClasses == <<"\n", "C", "o", "m", "m", "o", "n", " ", "c", "l", "a", "s", "s", "e", "s", ":">>
s_listItemsFound == <<"\n", "L", "i", "s", "t", " ", "i", "t", "e", "m", "s", " ", "f", "o", "u", "n", "d", ":", " ">>
s_items == <<" ", "i", "t", "e", "m", "s">>
s_elements == <<" ", "e", "l", "e", "m", "e", "n", "t", "s", ")">>

\* a || b for strings
OrElse(a, b) == IF a # <<>> THEN a ELSE b

\* `- <${tag} id="${id}">: "${content}"`
IdLine(d, n) ==
  LET el == d[n]
      content == IF ~el.html THEN <<>>
                 ELSE IF directText(d, n) # <<>> THEN substring(directText(d, n), 60)
                 ELSE IF el.tag \in {s_input, s_button}
                      THEN OrElse(getAttribute(el, s_value), Trim(textContent(d, n)))
                 ELSE substring(Trim(textContent(d, n)), 60)
  IN  <<"-", " ", "<">> \o el.tag \o <<" ", "i", "d", "=", "\"">> \o getAttribute(el, s_id)
        \o <<"\"", ">", ":", " ", "\"">> \o content \o <<"\"">>

\* the class names counted: every name not starting with chat-widget, in the
\* order in which the map first sees them
CountedClasses(d) ==
  LET els == AllElements(d)
      names == join([i \in DOMAIN els |-> classList(d[els[i]])], <<>>)
  IN  Unique(SelectSeq(names, LAMBDA c : ~startsWith(c, s_chatWidget)))

\* classMap.get(className): elements with a class attribute that carry the name
ClassCount(d, c) ==
  Cardinality({n \in Range(AllElements(d)) : c \in Range(classList(d[n]))})

\* entries.sort((a, b) => b[1] - a[1]): by count, largest first, stable
SortByCount(d, names) ==
  LET before(i, j) == \/ ClassCount(d, names[i]) > ClassCount(d, names[j])
                      \/ ClassCount(d, names[i]) = ClassCount(d, names[j]) /\ i < j
      rank(i) == Cardinality({j \in DOMAIN names : before(j, i)}) + 1
  IN  [r \in DOMAIN names |-> names[CHOOSE i \in DOMAIN names : rank(i) = r]]

\* topClasses: the names of the entries after sort(...).slice(0, 10)
TopClasses(d) == slice(SortByCount(d, CountedClasses(d)), 10)

\* `- .${className} (${count} elements)`
ClassLine(d, c) ==
  <<"-", " ", ".">> \o c \o <<" ", "(">> \o String(ClassCount(d, c)) \o s_elements

\* document.querySelectorAll('li:not(.chat-widget-container li)')
WidgetListItem == ParseSelector(<<".">> \o s_chatWidgetContainer \o <<" ">> \o s_li)
OuterListItems(d) ==
  SelectSeq(querySelectorAll(d, s_li), LAMBDA n : ~Matches(d, n, WidgetListItem))

getDOMContext(d) ==
  LET withId == SelectSeq(querySelectorAll(d, <<"[">> \o s_id \o <<"]">>),
                  LAMBDA n : ~(includes(getAttribute(d[n], s_id), s_chatWidget) \/ InWidget(d, n)))
      idLines == [i \in DOMAIN withId |-> IdLine(d, withId[i])]
      top == TopClasses(d)
      topClasses == [i \in DOMAIN top |-> ClassLine(d, top[i])]
      classLines == IF topClasses # <<>> THEN <<s_commonClasses>> \o topClasses ELSE <<>>
      listItems == OuterListItems(d)
      itemLines == IF listItems # <<>>
                   THEN <<s_listItemsFound \o String(Len(listItems)) \o s_items>>
                   ELSE <<>>
  IN  join(idLines \o classLines \o itemLines, <<"\n">>)

\* the summary of the page as loaded, and of any other document (the same
\* value as getDOMContext(d); the first is computed once)
HostSummary == getDOMContext(HostPage)
Snapshot(d) == IF d = HostPage THEN HostSummary ELSE getDOMContext(d)

\* ------------------------------------------------ the options of a request
Undefined == <<>>
Defined(x) == <<x>>

\* stepCountIs(7)
StepCount == 7

\* the keys of the object createTools() returns
createTools == {"searchElements", "modifyElement", "createElement", "highlightElements"}

\* the fixed text of the system prompt (shortened to its last line)
SystemPrompt ==
  <<"k", "n", "o", "w", "n", " ", "e", "l", "e", "m", "e", "n", "t", "s", ":", "\n">>

\* mutant: the stop condition is sent whether or not tools are enabled
StopWhen_always(enabled) == Defined(StepCount)

\* ...(tools && { stopWhen: stepCountIs(7) })
StopWhen(enabled) == IF enabled THEN Defined(StepCount) ELSE Undefined

\* const domContext = tools ? getDOMContext() : ''; system, tools, stopWhen
RequestOptions(enabled, d) ==
  LET domContext == IF enabled THEN Snapshot(d) ELSE <<>>
  IN  [summarized |-> enabled,
       system |-> IF enabled THEN Defined(SystemPrompt \o domContext) ELSE Undefined,
       tools |-> IF enabled THEN Defined(createTools) ELSE Undefined,
       stopWhen |-> StopWhen(enabled)]

\* no tool has been executed yet
NoCall == [tool |-> "none"]
NoToolResult == [tool |-> "none"]

NoOptions ==
  [summarized |-> FALSE, system |-> Undefined, tools |-> Undefined, stopWhen |-> Undefined]

\* ------------------------------------------------- the tools: searchElements
\* limit: z.number().default(10)
DefaultLimit == 10

\* what an execute function hands its caller: a value it returns, or an
\* exception it lets through; count: results / elements modified / highlighted
Returned(toolName, success, kind, error, results, count) ==
  [tool |-> toolName, threw |-> FALSE, success |-> success,
   message |-> [kind |-> kind, error |-> error], results |-> results, count |-> count]

Thrown(toolName, error) ==
  [tool |-> toolName, threw |-> TRUE, success |-> FALSE,
   message |-> [kind |-> "uncaught", error |-> error], results |-> <<>>, count |-> Undefined]

\* the selector a search hands to the engine, or Undefined when it hands none
SearchSelector(searchType, searchValue, tag) ==
  CASE searchType = "text" -> Defined(OrElse(tag, <<"*">>))
    [] searchType = "tag" -> Defined(searchValue)
    [] searchType = "attribute" -> Defined(<<"[">> \o searchValue \o <<"]">>)
    [] searchType = "class" -> Defined(<<".">> \o searchValue)
    [] OTHER -> Undefined

\* mutant: a list item is matched by its text only
TextMatch_byText(d, n, searchValue) ==
  ~InWidget(d, n) /\ includes(toLowerCase(textContent(d, n)), toLowerCase(searchValue))

\* case 'text': the filter
TextMatch(d, n, searchValue) ==
  /\ ~InWidget(d, n)
  /\ IF d[n].tag = s_li
     THEN \/ toLowerCase(searchValue) = s_li
          \/ includes(toLowerCase(directText(d, n)), toLowerCase(searchValue))
          \/ includes(toLowerCase(textContent(d, n)), toLowerCase(searchValue))
     ELSE includes(toLowerCase(textContent(d, n)), toLowerCase(searchValue))

\* switch (searchType)
Candidates(d, searchType, searchValue, tag) ==
  CASE searchType = "all" ->
         IF \/ toLowerCase(searchValue) = s_list
            \/ includes(toLowerCase(searchValue), s_listItems)
         THEN querySelectorAll(d, s_li)
         ELSE LET query == toLowerCase(searchValue)
              IN  SelectSeq(AllElements(d),
                    LAMBDA n : /\ ~InWidget(d, n)
                               /\ includes(toLowerCase(textContent(d, n)), query))
    [] searchType = "text" ->
         SelectSeq(querySelectorAll(d, OrElse(tag, <<"*">>)),
                   LAMBDA n : TextMatch(d, n, searchValue))
    [] searchType = "tag" ->
         SelectSeq(querySelectorAll(d, searchValue), LAMBDA n : ~InWidget(d, n))
    [] searchType = "attribute" -> querySelectorAll(d, <<"[">> \o searchValue \o <<"]">>)
    [] searchType = "class" -> querySelectorAll(d, <<".">> \o searchValue)
    [] searchType = "id" ->
         IF getElementById(d, searchValue) # 0 THEN <<getElementById(d, searchValue)>> ELSE <<>>

\* mutant: the found elements are cut to the limit without the last filter
Found_unfiltered(d, elements, limit) == slice(elements, limit)

\* elements.filter(el => !el.closest('.chat-widget-container')).slice(0, limit)
Found(d, elements, limit) ==
  slice(SelectSeq(elements, LAMBDA n : ~InWidget(d, n)), limit)

\* `${parent.tagName.toLowerCase()} > ${el.tagName.toLowerCase()}:nth-child(${index})`
NthChild(d, n) ==
  LET parent == parentElement(d, n)
  IN  d[parent].tag \o <<" ", ">", " ">> \o d[n].tag
        \o <<":", "n", "t", "h", "-", "c", "h", "i", "l", "d", "(">>
        \o String(IndexOf(children(d, parent), n)) \o <<")">>

\* result.classes
OwnClasses(el) == SelectSeq(classList(el), LAMBDA c : ~startsWith(c, s_chatWidget))

\* Build selector
BuildSelector(d, n) ==
  IF getAttribute(d[n], s_id) # <<>> THEN Defined(<<"#">> \o getAttribute(d[n], s_id))
  ELSE IF className(d[n]) # <<>>
       THEN IF OwnClasses(d[n]) # <<>> THEN Defined(<<".">> \o OwnClasses(d[n])[1])
            ELSE IF parentElement(d, n) # 0 THEN Defined(NthChild(d, n))
            ELSE Undefined
  ELSE Undefined

\* the descriptor of a found element (node: the element described, which the
\* descriptor itself does not carry); el.querySelector('::marker') and
\* getComputedStyle(el, '::before') are read and their values dropped
Descriptor(d, n) ==
  LET el == d[n]
      text == IF el.tag = s_li
              THEN OrElse(directText(d, n), Trim(textContent(d, n)))
              ELSE Trim(textContent(d, n))
  IN  [node |-> n,
       tagName |-> el.tag,
       text |-> substring(text, 100),
       id |-> IF getAttribute(el, s_id) # <<>> THEN Defined(getAttribute(el, s_id))
              ELSE Undefined,
       classes |-> IF getAttribute(el, s_id) = <<>> /\ className(el) # <<>>
                   THEN Defined(OwnClasses(el)) ELSE Undefined,
       selector |-> BuildSelector(d, n)]

\* mutant: no catch, the engine's exception leaves the function
Caught_rethrown(toolName, error) == Thrown(toolName, error)

\* catch (error) { return { success: false, message: `Error: ...`, ... } }
Caught(toolName, error) ==
  Returned(toolName, FALSE, "Error", error, <<>>,
           IF toolName \in {"modifyElement", "highlightElements"} THEN Defined(0)
           ELSE Undefined)

\* searchElements.execute
searchElements(d, searchType, searchValue, tag, limit) ==
  LET selector == SearchSelector(searchType, searchValue, tag)
  IN  IF selector # Undefined /\ ~IsValidSelector(selector[1])
      THEN Caught("searchElements", "SyntaxError")
      ELSE LET elements == Found(d, Candidates(d, searchType, searchValue, tag), limit)
               results == [i \in DOMAIN elements |-> Descriptor(d, elements[i])]
           IN  Returned("searchElements", TRUE, "Found", "", results, Defined(Len(results)))

\* -------------------------------------------------- the tools: modifyElement
\* the outcome of an execute function: the document it leaves and its result
Outcome(d, res) == [doc |-> d, result |-> res]

\* a step of the engine: the document it leaves and the exception it raised
Step(d, error) == [doc |-> d, error |-> error]

\* the nodes of kids lose their parent
Orphaned(d, kids) ==
  [i \in DOMAIN d |-> IF i \in Range(kids) THEN [d[i] EXCEPT !.parent = 0] ELSE d[i]]

\* element.textContent = value (setter): the children are replaced by one text
\* node, or by nothing when the value is empty
setTextContent(d, n, value) ==
  LET cleared == Orphaned(d, d[n].kids)
  IN  IF value = <<>>
      THEN [cleared EXCEPT ![n].kids = <<>>]
      ELSE Append([cleared EXCEPT ![n].kids = <<Len(d) + 1>>], TextNode(value, n))

\* style[prop] = val ('' removes the property)
setStyle(el, prop, val) ==
  [el EXCEPT !.style = IF val = <<>> THEN [p \in DOMAIN @ \ {prop} |-> @[p]]
                       ELSE (prop :> val) @@ @]

\* value.split(';').map(trim).filter(s => s), each split(':').map(trim)
Declarations(value) ==
  LET styles == SelectSeq([i \in DOMAIN split(value, ";") |-> Trim(split(value, ";")[i])],
                          LAMBDA x : x # <<>>)
  IN  [i \in DOMAIN styles |->
        LET pv == split(styles[i], ":")
        IN  [prop |-> Trim(pv[1]), val |-> IF Len(pv) > 1 THEN Trim(pv[2]) ELSE <<>>]]

RECURSIVE applyStyles(_, _)
applyStyles(el, decls) ==
  IF decls = <<>> THEN el
  ELSE applyStyles(IF Head(decls).prop # <<>> /\ Head(decls).val # <<>>
                   THEN setStyle(el, Head(decls).prop, Head(decls).val) ELSE el,
                   Tail(decls))

\* element.setAttribute(name, value): the name must be a valid attribute name
IsValidName(name) == IsIdent(name)
setAttribute(el, name, value) ==
  [el EXCEPT !.attrs = (toLowerCase(name) :> IF toLowerCase(name) = s_class
                                              THEN Tokens(value) ELSE value) @@ @]

\* the class attribute after the token set has changed
withTokens(el, tokens) ==
  IF tokens = <<>> /\ s_class \notin DOMAIN el.attrs THEN el
  ELSE [el EXCEPT !.attrs = (s_class :> tokens) @@ @]

\* classList.add(...tokens), classList.remove(...tokens): an empty token is a
\* SyntaxError, raised before any token is added or removed
addTokens(el, tokens) == withTokens(el, Unique(classList(el) \o tokens))
removeTokens(el, tokens) ==
  withTokens(el, SelectSeq(classList(el), LAMBDA c : c \notin Range(tokens)))

\* mutant: the element is emptied and stays where it is
removeNode_emptied(d, n) == [Orphaned(d, d[n].kids) EXCEPT ![n].kids = <<>>]

\* element.remove()
removeNode(d, n) ==
  IF d[n].parent = 0 THEN d
  ELSE [d EXCEPT ![d[n].parent].kids = SelectSeq(@, LAMBDA k : k # n),
                 ![n].parent = 0]

\* switch (action), for one element (value, attribute: Undefined when left out)
applyAction(d, n, action, value, attribute) ==
  LET v == IF value = Undefined THEN <<>> ELSE value[1]
      a == IF attribute = Undefined THEN <<>> ELSE attribute[1]
  IN  CASE action = "text" ->
             Step(IF d[n].html THEN setTextContent(d, n, v) ELSE d, "")
        [] action = "style" ->
             Step(IF d[n].html /\ v # <<>>
                  THEN [d EXCEPT ![n] = applyStyles(@, Declarations(v))] ELSE d, "")
        [] action = "attribute" ->
             IF a # <<>> /\ value # Undefined
             THEN IF IsValidName(a) THEN Step([d EXCEPT ![n] = setAttribute(@, a, v)], "")
                  ELSE Step(d, "InvalidCharacterError")
             ELSE Step(d, "")
        [] action = "addClass" ->
             IF v = <<>> THEN Step(d, "")
             ELSE IF <<>> \in Range(split(v, " ")) THEN Step(d, "SyntaxError")
             ELSE Step([d EXCEPT ![n] = addTokens(@, split(v, " "))], "")
        [] action = "removeClass" ->
             IF v = <<>> THEN Step(d, "")
             ELSE IF <<>> \in Range(split(v, " ")) THEN Step(d, "SyntaxError")
             ELSE Step([d EXCEPT ![n] = removeTokens(@, split(v, " "))], "")
        [] action = "remove" -> Step(removeNode(d, n), "")

\* elements.forEach(...): stops at the first exception
RECURSIVE forEachApply(_, _, _, _, _)
forEachApply(d, elements, action, value, attribute) ==
  IF elements = <<>> THEN Step(d, "")
  ELSE LET one == applyAction(d, Head(elements), action, value, attribute)
       IN  IF one.error # "" THEN one
           ELSE forEachApply(one.doc, Tail(elements), action, value, attribute)

\* const elements = document.querySelectorAll(selector)
ModifyTargets(d, selector) == querySelectorAll(d, selector)

\* mutant: an empty match is reported as a success
NoMatch_success(toolName, selector) ==
  Returned(toolName, TRUE, "Successfully modified", "", <<>>, Defined(0))

\* if (elements.length === 0) return { success: false, ... }
NoMatch(toolName, selector) ==
  Returned(toolName, FALSE, "No elements found with selector", "", <<>>, Defined(0))

\* modifyElement.execute
modifyElement(d, selector, action, value, attribute) ==
  IF ~IsValidSelector(selector)
  THEN Outcome(d, Caught("modifyElement", "SyntaxError"))
  ELSE LET elements == ModifyTargets(d, selector)
       IN  IF elements = <<>> THEN Outcome(d, NoMatch("modifyElement", selector))
           ELSE LET done == forEachApply(d, elements, action, value, attribute)
                IN  IF done.error # ""
                    THEN Outcome(done.doc, Caught("modifyElement", done.error))
                    ELSE Outcome(done.doc,
                           Returned("modifyElement", TRUE, "Successfully modified", "",
                                    <<>>, Defined(Len(elements))))

\* -------------------------------------------------- the tools: createElement
\* document.querySelector(selector): the first match, or 0
querySelector(d, selector) ==
  LET found == querySelectorAll(d, selector)
  IN  IF found = <<>> THEN 0 ELSE found[1]

\* a sequence with x put in front of its item y, or at its end when y = 0
InsertBefore(s, x, y) ==
  IF y = 0 THEN Append(s, x)
  ELSE SubSeq(s, 1, IndexOf(s, y) - 1) \o <<x>> \o SubSeq(s, IndexOf(s, y), Len(s))

\* parent.nextSibling, or 0
nextSibling(d, n) ==
  LET sibs == d[d[n].parent].kids
  IN  IF IndexOf(sibs, n) < Len(sibs) THEN sibs[IndexOf(sibs, n) + 1] ELSE 0

\* into.insertBefore(n, ref), into.appendChild(n) when ref = 0
insertBefore(d, into, n, ref) ==
  [d EXCEPT ![into].kids = InsertBefore(@, n, ref), ![n].parent = into]

\* switch (position)
Place(d, n, parent, position) ==
  CASE position = "append" -> insertBefore(d, parent, n, 0)
    [] position = "prepend" ->
         insertBefore(d, parent, n, IF d[parent].kids = <<>> THEN 0 ELSE d[parent].kids[1])
    [] position = "before" ->
         IF parentElement(d, parent) = 0 THEN d
         ELSE insertBefore(d, parentElement(d, parent), n, parent)
    [] position = "after" ->
         IF parentElement(d, parent) = 0 THEN d
         ELSE insertBefore(d, parentElement(d, parent), n, nextSibling(d, parent))

\* document.createElement(tagName) with its content, attributes and styles
NewElement(d, tagName, content, attributes, styles) ==
  LET el == [ElementNode(toLowerCase(tagName),
                         [a \in {toLowerCase(k) : k \in DOMAIN attributes} |->
                           LET k == CHOOSE x \in DOMAIN attributes : toLowerCase(x) = a
                           IN  IF a = s_class THEN Tokens(attributes[k]) ELSE attributes[k]],
                         IF content # <<>> THEN <<Len(d) + 2>> ELSE <<>>, 0, TRUE)
               EXCEPT !.style = styles]
  IN  IF content # <<>> THEN d \o <<el, TextNode(content, Len(d) + 1)>>
      ELSE Append(d, el)

\* mutant: without a parent the element goes to the end of the body
NoParent_appendToBody(d, tagName, content, attributes, styles, parentSelector) ==
  IF querySelector(d, s_body) # 0 /\ IsValidName(tagName)
  THEN Outcome(Place(NewElement(d, tagName, content, attributes, styles), Len(d) + 1,
                     querySelector(d, s_body), "append"),
               Returned("createElement", FALSE, "Parent element not found", "", <<>>, Undefined))
  ELSE Outcome(d, Returned("createElement", FALSE, "Parent element not found", "", <<>>,
                           Undefined))

\* if (!parent) return { success: false, ... }
NoParent(d, tagName, content, attributes, styles, parentSelector) ==
  Outcome(d, Returned("createElement", FALSE, "Parent element not found", "", <<>>, Undefined))

\* createElement.execute
createElement(d, tagName, content, attributes, styles, parentSelector, position) ==
  IF ~IsValidSelector(parentSelector)
  THEN Outcome(d, Caught("createElement", "SyntaxError"))
  ELSE LET parent == querySelector(d, parentSelector)
       IN  IF parent = 0
           THEN NoParent(d, tagName, content, attributes, styles, parentSelector)
           ELSE IF ~IsValidName(tagName) \/ \E k \in DOMAIN attributes : ~IsValidName(k)
           THEN Outcome(d, Caught("createElement", "InvalidCharacterError"))
           ELSE Outcome(Place(NewElement(d, tagName, content, attributes, styles),
                              Len(d) + 1, parent, position),
                        Returned("createElement", TRUE, "Created", "", <<>>, Undefined))

\* ---------------------------------------------- the tools: highlightElements
s_backgroundColor == <<"b", "a", "c", "k", "g", "r", "o", "u", "n", "d", "C", "o", "l", "o", "r">>
s_animation == <<"a", "n", "i", "m", "a", "t", "i", "o", "n">>
s_boxShadow == <<"b", "o", "x", "S", "h", "a", "d", "o", "w">>
s_transition == <<"t", "r", "a", "n", "s", "i", "t", "i", "o", "n">>
s_color == <<"c", "o", "l", "o", "r">>
s_keyframes == <<"@", "k", "e", "y", "f", "r", "a", "m", "e", "s">>
s_ease == <<"a", "l", "l", " ", "0", ".", "3", "s", " ", "e", "a", "s", "e">>
s_solid == <<"3", "p", "x", " ", "s", "o", "l", "i", "d", " ">>
s_easeInOut == <<"m", "s", " ", "e", "a", "s", "e", "-", "i", "n", "-", "o", "u", "t">>
s_infinite == <<" ", "i", "n", "f", "i", "n", "i", "t", "e">>
s_effect == <<"-", "e", "f", "f", "e", "c", "t", " ">>
s_pulse == <<"p", "u", "l", "s", "e">>
s_shake == <<"s", "h", "a", "k", "e">>
s_glow == <<"g", "l", "o", "w">>

\* element.style[prop] ('' when the property is not set)
getStyle(el, prop) == IF prop \in DOMAIN el.style THEN el.style[prop] ELSE <<>>

\* the properties saved before an effect and put back after it
SavedProps == {s_border, s_backgroundColor, s_animation, s_boxShadow, s_transition}
originalStyles(el) == [p \in SavedProps |-> getStyle(el, p)]

\* document.head: the head element of the root element, or 0
head(d) ==
  LET roots == children(d, Root)
      heads == IF roots = <<>> THEN <<>>
               ELSE SelectSeq(children(d, roots[1]), LAMBDA n : d[n].tag = s_head)
  IN  IF heads = <<>> THEN 0 ELSE heads[1]

\* mutant: the style element is never found
HasAnimations_never(d) == FALSE

\* document.getElementById('chat-widget-animations')
HasAnimations(d) == getElementById(d, s_chatWidgetAnimations) # 0

\* the style element with the keyframes, appended to the head
withAnimations(d) ==
  LET styleEl == ElementNode(s_style, (s_id :> s_chatWidgetAnimations), <<Len(d) + 2>>, 0, TRUE)
  IN  insertBefore(d \o <<styleEl, TextNode(s_keyframes, Len(d) + 1)>>, head(d), Len(d) + 1, 0)

\* `${name}-effect ${duration}ms ease-in-out`
Animation(name, duration) == name \o s_effect \o String(duration) \o s_easeInOut

\* Apply effect
applyEffect(el, effect, color, duration) ==
  LET eased == setStyle(el, s_transition, s_ease)
  IN  CASE effect = "border" -> setStyle(eased, s_border, s_solid \o color)
        [] effect = "background" -> setStyle(eased, s_backgroundColor, color \o <<"3", "0">>)
        [] effect = "pulse" ->
             setStyle(eased, s_animation, Animation(s_pulse, duration) \o s_infinite)
        [] effect = "shake" -> setStyle(eased, s_animation, Animation(s_shake, duration))
        [] effect = "glow" ->
             setStyle(setStyle(eased, s_animation, Animation(s_glow, duration) \o s_infinite),
                      s_color, color)

\* mutant: a property that had no value is left as the effect set it
RECURSIVE restore_valued(_, _, _)
restore_valued(el, original, props) ==
  IF props = {} THEN el
  ELSE LET p == CHOOSE x \in props : TRUE
       IN  restore_valued(IF original[p] # <<>> THEN setStyle(el, p, original[p]) ELSE el,
                          original, props \ {p})

\* the callback of setTimeout: every saved property is put back
RECURSIVE restore(_, _, _)
restore(el, original, props) ==
  IF props = {} THEN el
  ELSE LET p == CHOOSE x \in props : TRUE
       IN  restore(setStyle(el, p, original[p]), original, props \ {p})

\* elements.forEach(...): effect applied
RECURSIVE forEachEffect(_, _, _, _, _)
forEachEffect(d, elements, effect, color, duration) ==
  IF elements = <<>> THEN d
  ELSE forEachEffect([d EXCEPT ![Head(elements)] = applyEffect(@, effect, color, duration)],
                     Tail(elements), effect, color, duration)

\* the timers still to fire, and the number of timer events (a timer is
\* set, a timer fires) so far
Pending(tm) == {i \in DOMAIN tm : tm[i].fired = 0}
Events(tm) == Len(tm) + Cardinality(DOMAIN tm \ Pending(tm))

\* elements.forEach(...): setTimeout(..., duration) with the styles saved.
\* The timers one execution sets are due together and run one after the
\* other: they are kept as one entry of the timer table. An entry stays in
\* the table when it has fired; set and fired tell when it was set and when
\* it fired, counted in timer events (fired = 0: still to fire).
NewTimers(d, tm, elements, duration) ==
  IF elements = <<>> THEN <<>>
  ELSE << [saved |-> [i \in DOMAIN elements |->
                       [node |-> elements[i], original |-> originalStyles(d[elements[i]])]],
           duration |-> duration,
           set |-> Events(tm) + 1,
           fired |-> 0] >>

\* the callbacks of one entry
RECURSIVE restoreAll(_, _)
restoreAll(d, saved) ==
  IF saved = <<>> THEN d
  ELSE restoreAll([d EXCEPT ![Head(saved).node] = restore(@, Head(saved).original, SavedProps)],
                  Tail(saved))

\* highlightElements.execute: the document, the timers and the result
Highlighted(d, tm, res) == [doc |-> d, timers |-> tm, result |-> res]

highlightElements(d, tm, selector, effect, color, duration) ==
  IF ~IsValidSelector(selector)
  THEN Highlighted(d, tm, Caught("highlightElements", "SyntaxError"))
  ELSE LET matched == querySelectorAll(d, selector)
           styled == HasAnimations(d)
       IN  IF matched = <<>>
           THEN Highlighted(d, tm, NoMatch("highlightElements", selector))
           ELSE IF ~styled /\ head(d) = 0
           THEN Highlighted(d, tm, Caught("highlightElements", "TypeError"))
           ELSE LET d1 == IF styled THEN d ELSE withAnimations(d)
                    elements == SelectSeq(matched, LAMBDA n : d[n].html)
                IN  Highlighted(forEachEffect(d1, elements, effect, color, duration),
                                tm \o NewTimers(d1, tm, elements, duration),
                                Returned("highlightElements", TRUE, "Highlighted", "", <<>>,
                                         Defined(Len(matched))))

\* ------------------------------------------------------- the conversation

NewMessage(id, role, content) ==
  [id |-> id, role |-> role, content |-> content, toolInvocations |-> <<>>]

UserMessage(now, inp) == NewMessage(now, "user", Trim(inp))

AssistantMessage(now) == NewMessage(now + 1, "assistant", <<>>)

ErrorMessage(now) == NewMessage(now, "system", FailureNotice)

\* what the handler reads from the closure of the last render
SubmitGuard(v) == Trim(v.input) # <<>> /\ ~v.isLoading

\* messages: messages.concat(userMessage).map(...)
RequestMessages(msgs, userMessage) ==
  LET all == Append(msgs, userMessage)
  IN  [i \in DOMAIN all |->
        [role |-> IF all[i].role = "tool" THEN "assistant" ELSE all[i].role,
         content |-> all[i].content]]

\* prev.map(m => m.id === id ? {...m, content} : m)
MapContent(msgs, id, content) ==
  [i \in DOMAIN msgs |->
    IF msgs[i].id = id THEN [msgs[i] EXCEPT !.content = content] ELSE msgs[i]]

\* prev.map(m => m.id === id ? {...m, toolInvocations: [...invs]} : m)
MapInvocations(msgs, id, invs) ==
  [i \in DOMAIN msgs |->
    IF msgs[i].id = id THEN [msgs[i] EXCEPT !.toolInvocations = invs] ELSE msgs[i]]

IdleTurn ==
  [pc |-> "idle", assistantId |-> 0, slot |-> 0, fullContent |-> <<>>,
   toolInvocations |-> <<>>, currentToolCall |-> 0, expected |-> <<>>,
   request |-> <<>>, options |-> NoOptions]

CalledIds(tr) == {tr.toolInvocations[i].toolCallId : i \in DOMAIN tr.toolInvocations}

InProgress(tr) == tr.pc \in {"awaiting", "streaming"}

Settled(tr) == tr.pc \in {"settledOk", "settledErr"}

Event(op, t, id, out) == [op |-> op, turn |-> t, id |-> id, out |-> out]

\* the closure a render gives the handlers
Rendered(inp, loading, msgs) == [input |-> inp, isLoading |-> loading, messages |-> msgs]

\* a root of ReactDOM: its container, the element it rendered, the props it
\* rendered last
ReactRoot(c, node, props) == [container |-> c, node |-> node, props |-> props]

\* private root: ReactDOM.Root | null = null
NoRoot == ReactRoot(0, 0, NoAttrs)

\* ------------------------------------------------------------------- Init
Init ==
  /\ messages = <<NewMessage(WelcomeId, "assistant", WelcomeMessage)>>
  /\ input = <<>>
  /\ isLoading = FALSE
  /\ view = Rendered(input, isLoading, messages)
  /\ turns = [t \in Turns |-> IdleTurn]
  /\ started = 0
  /\ clock = ClockStart
  /\ delivered = 0
  /\ last = Event("init", 0, "", NoResult)
  /\ tools \in BOOLEAN
  /\ doc = HostPage
  /\ timers = <<>>
  /\ call = NoCall
  /\ result = NoToolResult
  /\ calls = 0
  /\ root = NoRoot
  /\ container = 0
  /\ invoked = <<>>

\* ---------------------------------------------------------------- actions
\* the values Date.now() may return: never less than the value read before
Now == clock..(ClockStart + MaxTicks)

\* React flushes the updates of an event handler after the handler returns:
\* the handlers now close over the current state.  (The steps of the stream
\* loop below are followed by their render at once: a user event handled
\* before it would read isLoading = true and be ignored either way.)
Render ==
  /\ view # Rendered(input, isLoading, messages)
  /\ view' = Rendered(input, isLoading, messages)
  /\ UNCHANGED <<messages, input, isLoading, turns, started, clock, delivered, last, tools, sdk, page>>

\* onChange of the textarea (disabled while the rendered isLoading is true);
\* typing is followed up to the last submission the bound allows
TypeInput(s) ==
  /\ started < MaxTurns
  /\ ~view.isLoading
  /\ input # s
  /\ input' = s
  /\ UNCHANGED <<messages, isLoading, view, turns, started, clock, delivered, last, tools, sdk, page>>

\* handleSubmit up to its first await
Submit ==
  IF SubmitGuard(view)
  THEN /\ started < MaxTurns
       /\ \E now1 \in Now : \E now2 \in now1..(ClockStart + MaxTicks) :
          LET t == started + 1
              userMessage == UserMessage(now1, view.input)
              assistantMessage == AssistantMessage(now2)
          IN  /\ messages' = Append(Append(messages, userMessage), assistantMessage)
              /\ clock' = now2
              /\ turns' = [turns EXCEPT ![t] =
                    [IdleTurn EXCEPT !.pc = "awaiting",
                                     !.assistantId = assistantMessage.id,
                                     !.slot = Len(messages) + 2,
                                     !.request = RequestMessages(view.messages, userMessage),
                                     !.options = RequestOptions(tools, doc)]]
              /\ started' = t
              /\ last' = Event("submit", t, "", NoResult)
       /\ input' = <<>>
       /\ isLoading' = TRUE
       /\ UNCHANGED <<view, delivered, tools, sdk, page>>
  ELSE UNCHANGED vars

\* await streamText(...) resolves: the loop over result.fullStream starts
Open(t) ==
  /\ turns[t].pc = "awaiting"
  /\ turns' = [turns EXCEPT ![t].pc = "streaming"]
  /\ last' = Event("open", t, "", NoResult)
  /\ view' = Rendered(input, isLoading, messages)
  /\ UNCHANGED <<messages, input, isLoading, started, clock, delivered, tools, sdk, page>>

\* fullContent += part.text
DeltaContent(full, txt) == full \o txt

\* case 'text-delta'
TextDelta(t, txt) ==
  /\ turns[t].pc = "streaming"
  /\ delivered < MaxEvents
  /\ LET full == DeltaContent(turns[t].fullContent, txt)
     IN  IF txt # <<>>
         THEN /\ turns' = [turns EXCEPT ![t].fullContent = full,
                                        ![t].expected = @ \o txt]
              /\ messages' = MapContent(messages, turns[t].assistantId, full)
         ELSE /\ turns' = [turns EXCEPT ![t].expected = @ \o txt]
              /\ UNCHANGED messages
  /\ delivered' = delivered + 1
  /\ last' = Event("text-delta", t, "", NoResult)
  /\ view' = Rendered(input, isLoading, messages')
  /\ UNCHANGED <<input, isLoading, started, clock, tools, sdk, page>>

\* currentToolCall = {...}; toolInvocations.push(currentToolCall)
PushToolCall(tr, id, name) ==
  [tr EXCEPT !.toolInvocations =
                 Append(@, [toolCallId |-> id, toolName |-> name,
                            result |-> NoResult, from |-> ""]),
             !.currentToolCall = Len(tr.toolInvocations) + 1]

\* case 'tool-call' (the endpoint gives each call of a turn its own identifier)
ToolCall(t, id, name) ==
  /\ turns[t].pc = "streaming"
  /\ delivered < MaxEvents
  /\ id \notin CalledIds(turns[t])
  /\ turns' = [turns EXCEPT ![t] = PushToolCall(turns[t], id, name)]
  /\ delivered' = delivered + 1
  /\ last' = Event("tool-call", t, id, NoResult)
  /\ view' = Rendered(input, isLoading, messages)
  /\ UNCHANGED <<messages, input, isLoading, started, clock, tools, sdk, page>>

\* mutant: the identifier of the event is not compared
ResultMatches_nonNull(tr, id) == tr.currentToolCall # 0

\* currentToolCall && currentToolCall.toolCallId === part.toolCallId
ResultMatches(tr, id) ==
  /\ tr.currentToolCall # 0
  /\ tr.toolInvocations[tr.currentToolCall].toolCallId = id

\* mutant: the result goes to the first invocation of the turn
ResultTarget_first(tr) == 1

\* the invocation object currentToolCall refers to
ResultTarget(tr) == tr.currentToolCall

\* currentToolCall.result = part.output (from: the event that supplied it)
AttachResult(tr, id, out) ==
  [tr EXCEPT !.toolInvocations[ResultTarget(tr)] =
                 [@ EXCEPT !.result = out, !.from = id]]

\* case 'tool-result'
ToolResult(t, id, out) ==
  /\ turns[t].pc = "streaming"
  /\ delivered < MaxEvents
  /\ IF ResultMatches(turns[t], id)
     THEN LET tr == AttachResult(turns[t], id, out)
          IN  /\ turns' = [turns EXCEPT ![t] = tr]
              /\ messages' = MapInvocations(messages, tr.assistantId, tr.toolInvocations)
     ELSE UNCHANGED <<turns, messages>>
  /\ delivered' = delivered + 1
  /\ last' = Event("tool-result", t, id, out)
  /\ view' = Rendered(input, isLoading, messages')
  /\ UNCHANGED <<input, isLoading, started, clock, tools, sdk, page>>

\* case 'error': console.error only, the loop goes on
ErrorEvent(t) ==
  /\ turns[t].pc = "streaming"
  /\ delivered < MaxEvents
  /\ delivered' = delivered + 1
  /\ last' = Event("error", t, "", NoResult)
  /\ view' = Rendered(input, isLoading, messages)
  /\ UNCHANGED <<messages, input, isLoading, turns, started, clock, tools, sdk, page>>

\* handleSubmit returns: its locals are gone, the messages keep what was set
Return(tr, pc) ==
  [IdleTurn EXCEPT !.pc = pc, !.assistantId = tr.assistantId, !.slot = tr.slot,
                   !.request = tr.request, !.options = tr.options]

\* mutant: no finally block, the loading state stays as it is
FinallyLoading_missing == isLoading

\* finally { setIsLoading(false) }
FinallyLoading == FALSE

\* the stream is exhausted: the loop ends, then the finally block
StreamEnd(t) ==
  /\ turns[t].pc = "streaming"
  /\ turns' = [turns EXCEPT ![t] = Return(turns[t], "settledOk")]
  /\ isLoading' = FinallyLoading
  /\ last' = Event("end", t, "", NoResult)
  /\ view' = Rendered(input, isLoading', messages)
  /\ UNCHANGED <<messages, input, started, clock, delivered, tools, sdk, page>>

\* mutant: the failure notice takes the place of the placeholder
OnFault_replace(msgs, tr, now) ==
  Append(SelectSeq(msgs, LAMBDA m : m.id # tr.assistantId), ErrorMessage(now))

\* mutant: the streamed text is rolled back before the notice is appended
OnFault_rollback(msgs, tr, now) ==
  Append(MapContent(msgs, tr.assistantId, <<>>), ErrorMessage(now))

\* catch: setMessages(prev => [...prev, errorMessage])
OnFault(msgs, tr, now) == Append(msgs, ErrorMessage(now))

\* streamText or the stream iteration throws: catch, then finally
Fault(t) ==
  /\ InProgress(turns[t])
  /\ turns' = [turns EXCEPT ![t] = Return(turns[t], "settledErr")]
  /\ \E now \in Now :
       /\ messages' = OnFault(messages, turns[t], now)
       /\ clock' = now
  /\ isLoading' = FinallyLoading
  /\ last' = Event("fault", t, "", NoResult)
  /\ view' = Rendered(input, isLoading', messages')
  /\ UNCHANGED <<input, started, delivered, tools, sdk, page>>

TurnStep(t) ==
  \/ Open(t)
  \/ \E txt \in Texts : TextDelta(t, txt)
  \/ \E id \in ToolIds, name \in ToolNames : ToolCall(t, id, name)
  \/ \E id \in ToolIds, out \in Outputs : ToolResult(t, id, out)
  \/ ErrorEvent(t)
  \/ StreamEnd(t)
  \/ Fault(t)

Next ==
  \/ Render
  \/ \E s \in Inputs : TypeInput(s)
  \/ Submit
  \/ \E t \in Turns : TurnStep(t)

Spec == Init /\ [][Next]_vars

\* the stream is finite or faults: every started turn keeps being served
LiveSpec == Spec /\ \A t \in Turns : WF_vars(TurnStep(t))

\* ------------------------------------------------ the tools at work on a page
\* what the model may pass to the tools
Selectors == {s_li, <<".">> \o s_chatWidgetContainer, <<"*">>, s_list, <<"[">>}
TagFilters == {<<>>, s_li}
Limits == {-1, 0, 2, DefaultLimit}
s_Hi == <<"H", "i">>
s_red == <<"c", "o", "l", "o", "r", ":", " ", "r", "e", "d">>
s_twoTokens == <<"a", " ", " ", "b">>
s_badName == <<"a", " ", "b">>
ModifyActions ==
  [action : {"text"}, value : {Undefined, Defined(s_Hi)}, attribute : {Undefined}]
  \cup [action : {"style"}, value : {Defined(s_red)}, attribute : {Undefined}]
  \cup [action : {"attribute"}, value : {Defined(s_note)},
        attribute : {Defined(s_title), Defined(s_badName)}]
  \cup [action : {"addClass"}, value : {Defined(s_note), Defined(s_twoTokens)},
        attribute : {Undefined}]
  \cup [action : {"removeClass"}, value : {Defined(s_note)}, attribute : {Undefined}]
  \cup [action : {"remove"}, value : {Undefined}, attribute : {Undefined}]
ModifyInputs ==
  {[selector |-> x, action |-> a.action, value |-> a.value, attribute |-> a.attribute] :
     x \in Selectors, a \in ModifyActions}
TagNames == {s_p, <<"1">>}
Contents == {s_Hi}
AttributeSets == {(s_title :> s_note)}
Positions == {"append", "prepend", "before", "after"}
Effects == {"border", "background", "pulse", "shake", "glow"}
Colors == {<<"#", "f", "f", "0", "0", "0", "0">>}
Durations == {1000, 2000}

SearchInputs ==
  [searchType : {"text"}, searchValue : {s_li, s_list}, tag : TagFilters, limit : Limits]
  \cup [searchType : {"tag"}, searchValue : {s_li, <<"[">>}, tag : {<<>>}, limit : Limits]
  \cup [searchType : {"attribute"}, searchValue : {s_class, <<"[">>}, tag : {<<>>},
        limit : Limits]
  \cup [searchType : {"class"}, searchValue : {s_message, s_note}, tag : {<<>>},
        limit : Limits]
  \cup [searchType : {"id"}, searchValue : {s_intro, s_message}, tag : {<<>>}, limit : Limits]
  \cup [searchType : {"all"}, searchValue : {s_list, s_li}, tag : {<<>>}, limit : Limits]
CreateInputs ==
  [tagName : TagNames, content : Contents, attributes : AttributeSets, styles : {NoAttrs},
   parentSelector : Selectors, position : Positions]
HighlightInputs ==
  [selector : Selectors, effect : Effects, color : Colors, duration : Durations]

Call(toolName, in) == [tool |-> toolName, input |-> in]

\* searchElements is executed
ExecuteSearch(in) ==
  /\ calls < MaxCalls
  /\ call' = Call("searchElements", in)
  /\ result' = searchElements(doc, in.searchType, in.searchValue, in.tag, in.limit)
  /\ calls' = calls + 1
  /\ UNCHANGED <<chat, tools, sdk, doc, timers>>

\* modifyElement is executed
ExecuteModify(in) ==
  /\ calls < MaxCalls
  /\ call' = Call("modifyElement", in)
  /\ LET o == modifyElement(doc, in.selector, in.action, in.value, in.attribute)
     IN  doc' = o.doc /\ result' = o.result
  /\ calls' = calls + 1
  /\ UNCHANGED <<chat, tools, sdk, timers>>

\* createElement is executed
ExecuteCreate(in) ==
  /\ calls < MaxCalls
  /\ call' = Call("createElement", in)
  /\ LET o == createElement(doc, in.tagName, in.content, in.attributes, in.styles,
                            in.parentSelector, in.position)
     IN  doc' = o.doc /\ result' = o.result
  /\ calls' = calls + 1
  /\ UNCHANGED <<chat, tools, sdk, timers>>

\* highlightElements is executed
ExecuteHighlight(in) ==
  /\ calls < MaxCalls
  /\ call' = Call("highlightElements", in)
  /\ LET o == highlightElements(doc, timers, in.selector, in.effect, in.color, in.duration)
     IN  doc' = o.doc /\ timers' = o.timers /\ result' = o.result
  /\ calls' = calls + 1
  /\ UNCHANGED <<chat, tools, sdk>>

\* mutant: the timers fire and stay set
Timeout_again(i) ==
  /\ i \in Pending(timers)
  /\ \A j \in Pending(timers) : j < i => timers[j].duration > timers[i].duration
  /\ doc' = restoreAll(doc, timers[i].saved)
  /\ UNCHANGED <<chat, tools, sdk, timers, call, result, calls>>

\* mutant: timers fire in any order, whatever their durations
Timeout_anyOrder(i) ==
  /\ i \in Pending(timers)
  /\ doc' = restoreAll(doc, timers[i].saved)
  /\ timers' = [timers EXCEPT ![i].fired = Events(timers) + 1]
  /\ UNCHANGED <<chat, tools, sdk, call, result, calls>>

\* the timers of an execution fire: no timers set before them with a
\* duration that is not longer are still pending
Timeout(i) ==
  /\ i \in Pending(timers)
  /\ \A j \in Pending(timers) : j < i => timers[j].duration > timers[i].duration
  /\ doc' = restoreAll(doc, timers[i].saved)
  /\ timers' = [timers EXCEPT ![i].fired = Events(timers) + 1]
  /\ UNCHANGED <<chat, tools, sdk, call, result, calls>>

DomNext ==
  \/ \E in \in SearchInputs : ExecuteSearch(in)
  \/ \E in \in ModifyInputs : ExecuteModify(in)
  \/ \E in \in CreateInputs : ExecuteCreate(in)
  \/ \E in \in HighlightInputs : ExecuteHighlight(in)
  \/ \E i \in 1..MaxCalls : Timeout(i)

\* the tools run on the page of a widget that has them enabled
DomInit == Init /\ tools = TRUE

DomSpec == DomInit /\ [][DomNext]_vars

\* the event loop runs the callback of every timer that is due
DomLive == DomSpec /\ WF_vars(\E i \in 1..MaxCalls : Timeout(i))

\* ------------------------------------------------------ the embedding API
s_apiKey == <<"a", "p", "i", "K", "e", "y">>
s_theme == <<"t", "h", "e", "m", "e">>
s_containerId == <<"c", "o", "n", "t", "a", "i", "n", "e", "r", "I", "d">>
s_dataProps == <<"d", "a", "t", "a", "-", "p", "r", "o", "p", "s">>
s_dark == <<"d", "a", "r", "k">>
s_key1 == <<"k", "1">>
s_key2 == <<"k", "2">>

\* the page before the widget is embedded: the host page without the mount
\* point and what is rendered in it
EmbeddingPage == [SubSeq(HostPage, 1, 11) EXCEPT ![4].kids = <<5, 10>>]

\* an options object: a function from the names of the options given to their
\* values, Defined(text) or Undefined
OptionNames == <<s_apiKey, s_theme, s_containerId>>

\* { ...a, ...b }
Spread(a, b) == b @@ a

\* const { containerId, ...props } = options
Rest(options) == [k \in DOMAIN options \ {s_containerId} |-> options[k]]

\* a property that is not there reads as undefined
Prop(o, k) == IF k \in DOMAIN o THEN o[k] ELSE Undefined

\* containerId = 'chat-widget-root', theme = 'light': the default of a
\* destructured property that is undefined
OrDefault(v, default) == IF v = Undefined THEN default ELSE v[1]

\* JSON.stringify of an options object: properties whose value is undefined
\* are left out (the order of the properties in the text is read by nothing;
\* it is the order of OptionNames here)
JSONstringify(o) ==
  LET kept == SelectSeq(OptionNames, LAMBDA k : k \in DOMAIN o /\ o[k] # Undefined)
      quoted(t) == <<"\"">> \o t \o <<"\"">>
  IN  <<"{">> \o join([i \in DOMAIN kept |-> quoted(kept[i]) \o <<":">> \o quoted(o[kept[i]][1])],
                      <<",">>) \o <<"}">>

\* the objects JSON.parse can give for the texts written by update
OptionTexts == {s_key1, s_key2, s_light, s_dark, s_intro}
Parsed ==
  UNION {[names -> {Defined(t) : t \in OptionTexts}] : names \in SUBSET Range(OptionNames)}

\* JSON.parse of a text that JSON.stringify wrote
JSONparse(text) == CHOOSE o \in Parsed : JSONstringify(o) = text

\* className={`chat-widget-container ${position} ${theme}`}
WidgetClasses(props) ==
  Tokens(join(<<s_chatWidgetContainer, s_bottomRight,
                OrDefault(Prop(props, s_theme), s_light)>>, <<" ">>))

\* ReactDOM.createRoot(c).render(<ChatWidget {...props}/>): the first render
\* of a root clears the container and puts the widget (closed) into it
mount(d, c, props) ==
  LET n == Len(d)
      cleared == [Orphaned(d, d[c].kids) EXCEPT ![c].kids = <<n + 1>>]
  IN  cleared \o
      << ElementNode(s_div, (s_class :> WidgetClasses(props)), <<n + 2>>, c, TRUE),
         ElementNode(s_button, (s_class :> <<s_chatToggle>>), <<n + 3>>, n + 1, TRUE),
         ElementNode(s_svg, NoAttrs, <<>>, n + 2, FALSE) >>

\* root.render(<ChatWidget {...props}/>) on a root that has rendered before:
\* the element is kept and its class follows the props
rerender(d, r, props) == [d EXCEPT ![r.node] = withTokens(@, WidgetClasses(props))]

\* root.unmount(): what the root rendered leaves the container
unmount(d, r) == removeNode(d, r.node)

\* ChatWidgetSDK.init
init(options) ==
  /\ Len(invoked) < MaxOps
  /\ LET containerId == OrDefault(Prop(options, s_containerId), s_chatWidgetRoot)
         props == Rest(options)
         found == getElementById(doc, containerId)
         d1 == IF found # 0 THEN doc
               ELSE insertBefore(NewElement(doc, s_div, <<>>, (s_id :> containerId), NoAttrs),
                                 querySelector(doc, s_body), Len(doc) + 1, 0)
         c == IF found # 0 THEN found ELSE Len(doc) + 1
     IN  /\ container' = c
         /\ root' = ReactRoot(c, Len(d1) + 1, props)
         /\ doc' = mount(d1, c, props)
  /\ invoked' = Append(invoked, [op |-> "init", options |-> options])
  /\ UNCHANGED <<chat, tools, timers, call, result, calls>>

\* ChatWidgetSDK.destroy
destroy ==
  /\ Len(invoked) < MaxOps
  /\ LET d1 == IF root # NoRoot THEN unmount(doc, root) ELSE doc
         attached == container # 0 /\ d1[container].parent # 0
     IN  /\ root' = NoRoot
         /\ doc' = IF attached THEN removeNode(d1, container) ELSE d1
         /\ container' = IF attached THEN 0 ELSE container
  /\ invoked' = Append(invoked, [op |-> "destroy", options |-> NoAttrs])
  /\ UNCHANGED <<chat, tools, timers, call, result, calls>>

\* const newProps = { ...currentProps, ...options }
NewProps(currentProps, options) == Spread(currentProps, options)

\* ChatWidgetSDK.update
update(options) ==
  /\ Len(invoked) < MaxOps
  /\ IF root # NoRoot /\ container # 0
     THEN LET props == getAttribute(doc[container], s_dataProps)
              currentProps == IF props # <<>> THEN JSONparse(props) ELSE NoAttrs
              newProps == NewProps(currentProps, options)
              d1 == [doc EXCEPT ![container] =
                       setAttribute(@, s_dataProps, JSONstringify(newProps))]
          IN  /\ doc' = rerender(d1, root, newProps)
              /\ root' = [root EXCEPT !.props = newProps]
     ELSE UNCHANGED <<doc, root>>
  /\ container' = container
  /\ invoked' = Append(invoked, [op |-> "update", options |-> options])
  /\ UNCHANGED <<chat, tools, timers, call, result, calls>>

\* what the host page may pass to init and to update
InitOptions ==
  {a @@ t @@ c : a \in {(s_apiKey :> Defined(s_key1)), (s_apiKey :> Defined(s_key2))},
                 t \in {NoAttrs, (s_theme :> Defined(s_dark))},
                 c \in {NoAttrs, (s_containerId :> Defined(s_intro))}}
UpdateOptions ==
  {a @@ t : a \in {NoAttrs, (s_apiKey :> Defined(s_key2))},
            t \in {NoAttrs, (s_theme :> Defined(s_dark)), (s_theme :> Undefined)}}

SdkNext ==
  \/ \E o \in InitOptions : init(o)
  \/ destroy
  \/ \E p \in UpdateOptions : update(p)

\* the embedding API on a page that has no widget yet
SdkInit ==
  /\ messages = <<NewMessage(WelcomeId, "assistant", WelcomeMessage)>>
  /\ input = <<>>
  /\ isLoading = FALSE
  /\ view = Rendered(input, isLoading, messages)
  /\ turns = [t \in Turns |-> IdleTurn]
  /\ started = 0
  /\ clock = ClockStart
  /\ delivered = 0
  /\ last = Event("init", 0, "", NoResult)
  /\ tools = FALSE
  /\ doc = EmbeddingPage
  /\ timers = <<>>
  /\ call = NoCall
  /\ result = NoToolResult
  /\ calls = 0
  /\ root = NoRoot
  /\ container = 0
  /\ invoked = <<>>

SdkSpec == SdkInit /\ [][SdkNext]_vars

\* ------------------------------------------------------------------ claims
\* the placeholder assistant message of a started turn
Placeholder(t) == messages[turns[t].slot]

HasInvocation(m, id) ==
  \E i \in DOMAIN m.toolInvocations : m.toolInvocations[i].toolCallId = id

HasResult(m, id, out) ==
  \E i \in DOMAIN m.toolInvocations :
    /\ m.toolInvocations[i].toolCallId = id
    /\ m.toolInvocations[i].result = out

FaultStep(t) == InProgress(turns[t]) /\ turns'[t].pc = "settledErr"

SettleStep(t) == InProgress(turns[t]) /\ Settled(turns'[t])

\* C1: once a tool-result event for identifier X has been processed in a turn
\* that received a tool-call for X before, the placeholder's invocation list
\* holds an invocation X carrying that result, whatever arrived in between.
C1_ResultAttached ==
  (last.op = "tool-result" /\ last.id \in CalledIds(turns[last.turn]))
    => HasResult(Placeholder(last.turn), last.id, last.out)

OwnResults(invs) ==
  \A i \in DOMAIN invs : invs[i].result # NoResult => invs[i].from = invs[i].toolCallId

\* C2: every invocation that carries a result, in a message or in a running
\* turn, got it from a tool-result event with the invocation's own identifier.
C2_ResultFromOwnId ==
  /\ \A i \in DOMAIN messages : OwnResults(messages[i].toolInvocations)
  /\ \A t \in Turns : OwnResults(turns[t].toolInvocations)

C2_Witness ==
  \E t \in Turns :
    /\ turns[t].pc = "streaming"
    /\ Len(turns[t].toolInvocations) = 2
    /\ HasResult(Placeholder(t), turns[t].toolInvocations[2].toolCallId, "ok")

\* C3: a tool-result event whose identifier no tool-call of the turn has used
\* changes no message and no invocation.
C3_UnknownResultIgnored ==
  [][(/\ delivered' = delivered + 1
      /\ last'.op = "tool-result"
      /\ last'.id \notin CalledIds(turns[last'.turn]))
       => /\ messages' = messages
          /\ \A t \in Turns : turns'[t].toolInvocations = turns[t].toolInvocations]_vars

C3_Witness ==
  /\ last.op = "tool-result"
  /\ last.id \notin CalledIds(turns[last.turn])
  /\ turns[last.turn].currentToolCall # 0

\* C4: a tool-call event puts its invocation into the placeholder's invocation
\* list when it is processed, so every invocation of the turn is in the message
\* when the turn settles, with or without a result.
C4_CallRecorded ==
  /\ [](last.op = "tool-call" => HasInvocation(Placeholder(last.turn), last.id))
  /\ [][\A t \in Turns : SettleStep(t) =>
          \A id \in CalledIds(turns[t]) : HasInvocation(messages'[turns[t].slot], id)]_vars

\* C5: once a text-delta event of a turn has been processed, the placeholder's
\* content is the concatenation of the texts of the turn's text-delta events
\* so far, in arrival order.
C5_ContentIsConcatenation ==
  last.op = "text-delta" => Placeholder(last.turn).content = turns[last.turn].expected

\* C6: at most one turn is in progress at any time.
C6_OneTurnAtATime ==
  Cardinality({t \in Turns : InProgress(turns[t])}) <= 1

\* C7: the loading state is on exactly when a turn is awaiting its response or
\* streaming (tool-call-pending included).
C7_LoadingIffInProgress ==
  isLoading <=> \E t \in Turns : InProgress(turns[t])

\* C8 (as stated): after a turn settled in error its placeholder assistant
\* message is no longer in the conversation.
C8_PlaceholderReplaced ==
  \A t \in Turns : turns[t].pc = "settledErr" =>
    ~\E i \in DOMAIN messages :
        messages[i].role = "assistant" /\ messages[i].id = turns[t].assistantId

\* C8 (amended): a fault appends exactly one system-role message carrying the
\* failure notice to the end of the conversation and leaves every message
\* that was there, the placeholder included, as it was.
C8_NoticeAppended ==
  [][\A t \in Turns : FaultStep(t) =>
       /\ Len(messages') = Len(messages) + 1
       /\ SubSeq(messages', 1, Len(messages)) = messages
       /\ messages'[Len(messages')].role = "system"
       /\ messages'[Len(messages')].content = FailureNotice]_vars

C8_Witness ==
  \E t \in Turns :
    /\ turns[t].pc = "settledErr"
    /\ last = Event("fault", t, "", NoResult)
    /\ messages[turns[t].slot].role = "assistant"
    /\ messages[Len(messages)].role = "system"

\* C9: a fault removes or shortens no text: the content of every message, and
\* of the faulting turn's placeholder in particular, is after the fault what
\* it was before.
C9_TextKept ==
  [][\A t \in Turns : FaultStep(t) =>
       /\ \A i \in DOMAIN messages :
            i \in DOMAIN messages' /\ messages'[i].content = messages[i].content
       /\ messages'[turns[t].slot].id = turns[t].assistantId
       /\ messages'[turns[t].slot].content = messages[turns[t].slot].content]_vars

C9_Witness ==
  \E t \in Turns :
    /\ turns[t].pc = "settledErr"
    /\ last = Event("fault", t, "", NoResult)
    /\ messages[turns[t].slot].content = <<"H", "i", "!">>

\* C10: every started turn settles, and the step that settles it (stream
\* exhaustion or fault) clears the loading state.
C10_Settles ==
  /\ \A t \in Turns : (turns[t].pc # "idle") ~> Settled(turns[t])
  /\ [][\A t \in Turns : SettleStep(t) => ~isLoading']_vars

C10_Witness ==
  /\ \E t \in Turns : turns[t].pc = "settledOk" /\ last = Event("end", t, "", NoResult)
  /\ \E t \in Turns : turns[t].pc = "settledErr"
  /\ delivered = MaxEvents
  /\ ~isLoading

\* role: m.role === 'tool' ? 'assistant' : m.role, content: m.content
Wire(m) ==
  [role |-> IF m.role = "tool" THEN "assistant" ELSE m.role, content |-> m.content]

\* C11: the message list sent with a model request is the whole conversation
\* as it stood before the submission, followed by the new user message, in
\* order and with contents unchanged, every role tool sent as assistant; no
\* role tool is sent and the placeholder of the turn is not in the request.
C11_RequestIsHistory ==
  last.op = "submit" =>
    LET tr == turns[last.turn]
    IN  /\ Len(tr.request) = tr.slot - 1
        /\ \A i \in 1..(tr.slot - 1) : tr.request[i] = Wire(messages[i])
        /\ \A i \in DOMAIN tr.request : tr.request[i].role # "tool"

\* C12: a request carries the tool registry, the stop condition of 7 rounds
\* and the system prompt ending in the context summary exactly when the tools
\* prop is enabled; with tools disabled it carries none of the three and the
\* summary is not computed.
C12_OptionsIffTools ==
  \A t \in Turns : turns[t].pc # "idle" =>
    LET o == turns[t].options
    IN  IF tools
        THEN /\ o.tools = Defined(createTools)
             /\ o.stopWhen = Defined(StepCount)
             /\ o.system # Undefined /\ startsWith(o.system[1], SystemPrompt)
             /\ last = Event("submit", t, "", NoResult) =>
                  o.system = Defined(SystemPrompt \o Snapshot(doc))
             /\ o.summarized
        ELSE /\ o.tools = Undefined
             /\ o.stopWhen = Undefined
             /\ o.system = Undefined
             /\ ~o.summarized

C12_Witness ==
  /\ tools
  /\ last.op = "submit"
  /\ turns[last.turn].options.stopWhen = <<7>>
  /\ includes(turns[last.turn].options.system[1], s_listItemsFound \o <<"2">> \o s_items)

\* ----------------------------------------------------- claims on the tools
\* the step is an execution of the tool
Executed(toolName) == calls' = calls + 1 /\ call'.tool = toolName

Searched == call.tool = "searchElements" /\ result.success

\* the nodes the descriptors of the last search describe
ResultNodes == {result.results[i].node : i \in DOMAIN result.results}

\* C13: for every kind of search and every query, no node inside the
\* widget's root element (the element of class chat-widget-container) is
\* described in the results of searchElements.
C13_NoWidgetNode ==
  call.tool = "searchElements" => \A n \in ResultNodes : ~InWidget(doc, n)

C13_Witness ==
  /\ Searched
  /\ call.input.searchType = "attribute" /\ call.input.searchValue = s_class
  /\ call.input.limit = DefaultLimit
  /\ \E n \in DOMAIN doc : InWidget(doc, n) /\ s_class \in DOMAIN doc[n].attrs
  /\ ResultNodes # {}

\* C14: for every kind of search and every limit the schema accepts, zero and
\* negative numbers included, searchElements returns at most limit descriptors.
C14_AtMostLimit ==
  call.tool = "searchElements" => Len(result.results) <= call.input.limit

\* the list items outside the widget
ListItems == {n \in Range(AllElements(doc)) : doc[n].tag = s_li /\ ~InWidget(doc, n)}

TextSearchLi ==
  /\ Searched
  /\ call.input.searchType = "text"
  /\ call.input.searchValue = s_li
  /\ call.input.tag \in {<<>>, s_li}

\* C15: a text search for "li" returns every list item outside the widget,
\* whatever its text, whenever the limit is at least the number of those list
\* items and no tag filter excludes them.
C15_EveryListItem ==
  TextSearchLi /\ call.input.limit >= Cardinality(ListItems) => ListItems \subseteq ResultNodes

\* the nodes outside the widget that the last text search matches
TextMatches ==
  {n \in Range(querySelectorAll(doc, OrElse(call.input.tag, <<"*">>))) :
     TextMatch(doc, n, call.input.searchValue)}

\* C15 (amended): the search matches every list item outside the widget,
\* whatever its text, and returns every one of them whenever the limit is at
\* least the number of all the nodes it matches.
C15_EveryListItemMatched ==
  TextSearchLi =>
    /\ ListItems \subseteq TextMatches
    /\ call.input.limit >= Cardinality(TextMatches) => ListItems \subseteq ResultNodes

C15_Witness ==
  /\ TextSearchLi
  /\ call.input.tag = <<>> /\ call.input.limit = DefaultLimit
  /\ Cardinality(ListItems) = 2
  /\ \A n \in ListItems : ~includes(toLowerCase(textContent(doc, n)), s_li)
  /\ ListItems \subseteq ResultNodes
  /\ ResultNodes # ListItems

\* the selector the derivation order gives: #id, else .class of the first
\* class that is not the widget's, else the position among the parent's children
DerivedSelector(d, n) ==
  IF getAttribute(d[n], s_id) # <<>> THEN Defined(<<"#">> \o getAttribute(d[n], s_id))
  ELSE IF OwnClasses(d[n]) # <<>> THEN Defined(<<".">> \o OwnClasses(d[n])[1])
  ELSE IF parentElement(d, n) # 0 THEN Defined(NthChild(d, n))
  ELSE Undefined

\* C16: every descriptor carries the selector derived in this order: #id if
\* the node has an identifier, else .class for its first non-widget class,
\* else the nth-child selector; a node with neither gets the nth-child selector.
C16_SelectorDerived ==
  Searched =>
    \A i \in DOMAIN result.results :
      result.results[i].selector = DerivedSelector(doc, result.results[i].node)

\* the engine raises a fault when it applies the action of a modifyElement call
ActionFaults(in) ==
  \/ /\ in.action = "attribute"
     /\ in.attribute # Undefined /\ in.value # Undefined
     /\ in.attribute[1] # <<>> /\ ~IsIdent(in.attribute[1])
  \/ /\ in.action \in {"addClass", "removeClass"}
     /\ in.value # Undefined
     /\ in.value[1] # <<>> /\ <<>> \in Range(split(in.value[1], " "))

\* the number of nodes a selector matches
MatchCount(d, selector) == Len(querySelectorAll(d, selector))

\* C17: for every selector, action, value and attribute, modifyElement returns
\* success=false and 0 affected when the selector matches no node, and
\* success=true with the number of matched nodes when it matches one or more.
C17_SuccessIffMatch ==
  [][Executed("modifyElement") =>
       IF MatchCount(doc, call'.input.selector) = 0
       THEN ~result'.success /\ result'.count = Defined(0)
       ELSE result'.success
            /\ result'.count = Defined(MatchCount(doc, call'.input.selector))]_vars

\* C17 (amended): modifyElement returns success=false and 0 affected when the
\* selector matches no node or the engine raises a fault on the action (an
\* invalid attribute name, an empty class token), and success=true with the
\* number of matched nodes when it matches one or more and no fault is raised.
C17_SuccessIffMatchNoFault ==
  [][Executed("modifyElement") =>
       IF MatchCount(doc, call'.input.selector) = 0 \/ ActionFaults(call'.input)
       THEN ~result'.success /\ result'.count = Defined(0)
       ELSE result'.success
            /\ result'.count = Defined(MatchCount(doc, call'.input.selector))]_vars

C17_Witness ==
  /\ call.tool = "modifyElement"
  /\ call.input.selector = s_li /\ MatchCount(doc, s_li) = 2
  /\ call.input.action = "addClass" /\ ActionFaults(call.input)
  /\ ~result.success /\ result.count = Defined(0)

\* the nodes of the widget's rendered subtree: its elements and their text
WidgetNodes(d) ==
  {n \in DOMAIN d :
     \/ d[n].kind = "element" /\ InWidget(d, n)
     \/ d[n].kind = "text" /\ d[n].parent # 0 /\ InWidget(d, d[n].parent)}

\* C18: no execution of modifyElement, createElement or highlightElements
\* changes, detaches or restyles a node of the widget's rendered subtree or
\* inserts a node into it, whatever the selector.
C18_WidgetUntouched ==
  [][(\E t \in {"modifyElement", "createElement", "highlightElements"} : Executed(t)) =>
       /\ WidgetNodes(doc') = WidgetNodes(doc)
       /\ \A n \in WidgetNodes(doc) : doc'[n] = doc[n]]_vars

\* the selector the last call handed to the engine, or Undefined
UsedSelector ==
  CASE call.tool = "searchElements" ->
         SearchSelector(call.input.searchType, call.input.searchValue, call.input.tag)
    [] call.tool \in {"modifyElement", "highlightElements"} -> Defined(call.input.selector)
    [] call.tool = "createElement" -> Defined(call.input.parentSelector)
    [] OTHER -> Undefined

\* C19: no execute function lets an exception through to its caller: a fault
\* of the engine (a selector it cannot parse, an invalid attribute name or
\* class token) gives a result with success=false and a message naming the
\* fault, with no results and no affected nodes.
C19_FaultsReported ==
  call.tool # "none" =>
    /\ ~result.threw
    /\ UsedSelector # Undefined /\ ~IsValidSelector(UsedSelector[1]) =>
         result.message = [kind |-> "Error", error |-> "SyntaxError"]
    /\ call.tool = "modifyElement" /\ ActionFaults(call.input)
         /\ MatchCount(doc, call.input.selector) > 0 =>
         result.message.kind = "Error"
    /\ result.message.kind = "Error" =>
         /\ ~result.success
         /\ result.message.error # ""
         /\ result.results = <<>>
         /\ result.count \in {Undefined, Defined(0)}

C19_Witness ==
  /\ call.tool = "modifyElement"
  /\ call.input.action = "attribute" /\ call.input.attribute = Defined(s_badName)
  /\ ~result.threw /\ ~result.success
  /\ result.message = [kind |-> "Error", error |-> "InvalidCharacterError"]

\* C20: when parentSelector matches no node, createElement returns a failure
\* and leaves the document as it was: no node is created or inserted.
C20_NoParentNoChange ==
  [][Executed("createElement") /\ MatchCount(doc, call'.input.parentSelector) = 0 =>
       ~result'.success /\ doc' = doc]_vars

C20_Witness ==
  /\ call.tool = "createElement"
  /\ call.input.parentSelector = s_list
  /\ ~result.success
  /\ result.message.kind = "Parent element not found"

\* the element a createElement step has created, and the node it targeted
Created == Len(doc) + 1
Target == querySelector(doc, call'.input.parentSelector)

\* node a is the child right before node b in the child list kids
RightBefore(kids, a, b) ==
  \E i \in 1..(Len(kids) - 1) : kids[i] = a /\ kids[i + 1] = b

\* in document d the node new is where position asks, relative to node P
PlacedAt(d, new, P, position) ==
  CASE position = "append" ->
         d[new].parent = P /\ d[P].kids # <<>> /\ d[P].kids[Len(d[P].kids)] = new
    [] position = "prepend" ->
         d[new].parent = P /\ d[P].kids # <<>> /\ d[P].kids[1] = new
    [] position = "before" ->
         /\ d[new].parent # 0 /\ d[new].parent = d[P].parent
         /\ RightBefore(d[d[P].parent].kids, new, P)
    [] position = "after" ->
         /\ d[new].parent # 0 /\ d[new].parent = d[P].parent
         /\ RightBefore(d[d[P].parent].kids, P, new)

\* the nodes of d are in e, with the children each had, in the same order
SameOrder(d, e, new) ==
  \A m \in DOMAIN d : SelectSeq(e[m].kids, LAMBDA k : k # new) = d[m].kids

\* C21: after a successful createElement that targets node P the new node is
\* P's last child (append), P's first child (prepend), the sibling right before
\* P (before) or right after P (after), and all other nodes keep their order.
C21_Placed ==
  [][Executed("createElement") /\ result'.success =>
       /\ Created \in DOMAIN doc'
       /\ PlacedAt(doc', Created, Target, call'.input.position)
       /\ SameOrder(doc, doc', Created)]_vars

\* C29: whenever createElement returns success=true, exactly one new element
\* is attached to the document, for every target and position, before and
\* after on the root element included.
C29_OneNodeAttached ==
  [][Executed("createElement") /\ result'.success =>
       Range(AllElements(doc')) \ Range(AllElements(doc)) = {Created}]_vars

\* border, background color, animation, box-shadow and transition
FiveProps == {s_border, s_backgroundColor, s_animation, s_boxShadow, s_transition}

\* the step sets the timers of a highlight; the step fires entry i
SetsTimers == Executed("highlightElements") /\ Len(timers') = Len(timers) + 1
Fires(i) == i \in Pending(timers) /\ i \notin Pending(timers')

\* C22: a highlight call captures, for every node it styles, the values the
\* five properties have right before the call, and once its duration has
\* elapsed the five properties of the node have these values again, for
\* every effect and color.
C22_RoundTrip ==
  [][/\ SetsTimers =>
          LET saved == timers'[Len(timers')].saved
          IN  /\ {saved[k].node : k \in DOMAIN saved}
                   = {n \in Range(querySelectorAll(doc, call'.input.selector)) : doc[n].html}
              /\ \A k \in DOMAIN saved : \A p \in FiveProps :
                   saved[k].original[p] = getStyle(doc[saved[k].node], p)
     /\ \A i \in DOMAIN timers : Fires(i) =>
          \A k \in DOMAIN timers[i].saved : \A p \in FiveProps :
            getStyle(doc'[timers[i].saved[k].node], p) = timers[i].saved[k].original[p]]_vars

\* one highlight, of every element, with the border effect, has come and gone
C22_Witness ==
  /\ calls = 1 /\ call.tool = "highlightElements"
  /\ call.input.selector = <<"*">> /\ call.input.effect = "border"
  /\ Len(timers) = 1 /\ Pending(timers) = {}
  /\ \A n \in DOMAIN HostPage : \A p \in FiveProps :
       getStyle(doc[n], p) = getStyle(HostPage[n], p)
  /\ \E n \in DOMAIN HostPage : getStyle(doc[n], s_border) = s_thin

\* C23: after the duration of a highlight has elapsed, the inline style of
\* every node is exactly what it was before the highlight: no property other
\* than the five captured ones is changed by any effect.
C23_StyleAsBefore ==
  calls = 1 /\ call.tool = "highlightElements" /\ Pending(timers) = {} =>
    \A n \in DOMAIN HostPage : doc[n].style = HostPage[n].style

\* the nodes entry i restores
SavedNodes(i) == {timers[i].saved[k].node : k \in DOMAIN timers[i].saved}

Overlapped == Len(timers) = 2 /\ Pending(timers) = {} /\ timers[2].set < timers[1].fired
Shared == SavedNodes(1) \cap SavedNodes(2)

CapturedBy(i, n) ==
  timers[i].saved[CHOOSE k \in DOMAIN timers[i].saved : timers[i].saved[k].node = n].original

HasValues(n, values) == \A p \in FiveProps : getStyle(doc[n], p) = values[p]

\* C25: when a node is highlighted a second time before the first call's
\* restoration has fired, then after both restorations the node's five
\* properties have the values the second call captured, whatever the two
\* durations.
C25_SecondCallWins ==
  Overlapped => \A n \in Shared : HasValues(n, CapturedBy(2, n))

\* the call whose restoration fired last
LastFired == IF timers[1].fired > timers[2].fired THEN 1 ELSE 2

\* C25 (amended): after both restorations the node's five properties have the
\* values captured by the call whose restoration fired last: the second call's
\* when its duration is not shorter than the first's, and otherwise either
\* call's, the first call's when the second restoration fired first.
C25_LastFiredWins ==
  Overlapped =>
    /\ \A n \in Shared : HasValues(n, CapturedBy(LastFired, n))
    /\ timers[2].duration >= timers[1].duration => LastFired = 2

C25_Witness ==
  /\ Overlapped
  /\ LastFired = 1
  /\ \E n \in Shared : HasValues(n, CapturedBy(1, n)) /\ ~HasValues(n, CapturedBy(2, n))

\* the keyframe style blocks: in the document, and created at all
StyleBlocks(d) ==
  {n \in Range(AllElements(d)) : getAttribute(d[n], s_id) = s_chatWidgetAnimations}
StyleBlocksMade(d) ==
  {n \in DOMAIN d : d[n].kind = "element" /\ getAttribute(d[n], s_id) = s_chatWidgetAnimations}

\* C26: after any number of highlightElements calls, with any selectors, the
\* page holds at most one style block chat-widget-animations: the first call
\* that finds elements to highlight installs it, in the head, and a call that
\* finds it installed creates no other.
C26_OneStyleBlock ==
  [][/\ Cardinality(StyleBlocksMade(doc')) <= 1
     /\ Executed("highlightElements") =>
          /\ StyleBlocks(doc) # {} => StyleBlocksMade(doc') = StyleBlocksMade(doc)
          /\ result'.success =>
               \E n \in StyleBlocks(doc') : doc'[n].parent = head(doc') /\ doc'[n].tag = s_style
          /\ ~result'.success => StyleBlocksMade(doc') = StyleBlocksMade(doc)]_vars

C26_Witness ==
  /\ Len(timers) = 2
  /\ call.tool = "highlightElements" /\ result.success
  /\ Cardinality(StyleBlocks(doc)) = 1

\* the elements outside the widget's subtree that bear class c
OuterBearers(d, c) ==
  {n \in Range(AllElements(d)) : ~InWidget(d, n) /\ c \in Range(classList(d[n]))}

\* the classes borne by some element outside the widget's subtree
OuterClasses(d) ==
  UNION {Range(classList(d[n])) : n \in {m \in Range(AllElements(d)) : ~InWidget(d, m)}}

\* C27: the class frequencies of the summary count only elements outside the
\* widget's subtree, a class borne only inside the widget is not listed, and
\* the list is the at most 10 classes with the highest counts, largest first.
C27_OuterClassesOnly ==
  LET top == TopClasses(doc)
  IN  /\ Len(top) <= 10
      /\ \A i \in DOMAIN top :
           /\ top[i] \in OuterClasses(doc)
           /\ ClassCount(doc, top[i]) = Cardinality(OuterBearers(doc, top[i]))
      /\ \A i, j \in DOMAIN top : i < j => ClassCount(doc, top[i]) >= ClassCount(doc, top[j])
      /\ \A c \in OuterClasses(doc) \ Range(top) :
           /\ Len(top) = 10
           /\ \A i \in DOMAIN top :
                Cardinality(OuterBearers(doc, c)) <= Cardinality(OuterBearers(doc, top[i]))

\* the same modifyElement call made once more, right after the step
Repeated ==
  modifyElement(doc', call'.input.selector, call'.input.action, call'.input.value,
                call'.input.attribute)

C30_DistinctIds ==
  \A i, j \in DOMAIN messages : i # j => messages[i].id # messages[j].id

\* a text-delta or tool-result event of turn t is processed
StreamEvent(t) ==
  /\ turns[t].pc = "streaming"
  /\ delivered' = delivered + 1
  /\ last'.turn = t
  /\ last'.op \in {"text-delta", "tool-result"}

\* C31: a text-delta or tool-result event of a turn changes only that turn's
\* placeholder: every other message keeps its content, role and invocation
\* list, and the messages keep their number and their order.
C31_OnlyPlaceholder ==
  [][\A t \in Turns : StreamEvent(t) =>
       /\ Len(messages') = Len(messages)
       /\ \A i \in DOMAIN messages : messages'[i].id = messages[i].id
       /\ \A i \in DOMAIN messages \ {turns[t].slot} :
            /\ messages'[i].content = messages[i].content
            /\ messages'[i].role = messages[i].role
            /\ messages'[i].toolInvocations = messages[i].toolInvocations]_vars

\* the calls made last were init(o), then update(p)
InitThenUpdate ==
  /\ Len(invoked) >= 2
  /\ invoked[Len(invoked) - 1].op = "init"
  /\ invoked[Len(invoked)].op = "update"

\* every option reads the same in a and in b
SameOptions(a, b) == \A k \in Range(OptionNames) : Prop(a, k) = Prop(b, k)

\* an init has been called and no destroy after it
Initialised ==
  \E i \in DOMAIN invoked :
    /\ invoked[i].op = "init"
    /\ \A j \in DOMAIN invoked : j > i => invoked[j].op # "destroy"

Invokes(op) == Len(invoked') = Len(invoked) + 1 /\ invoked'[Len(invoked')].op = op

\* C32: after init(o) followed by update(p) the widget is rendered with the
\* options of o (without containerId) overridden by those of p; an update
\* before init or after destroy renders nothing; a destroy that follows a
\* destroy changes nothing.
C32_UpdateOverridesInit ==
  /\ [](InitThenUpdate =>
          /\ root # NoRoot
          /\ SameOptions(root.props, Spread(Rest(invoked[Len(invoked) - 1].options),
                                            invoked[Len(invoked)].options)))
  /\ [][(Invokes("update") /\ ~Initialised) => (doc' = doc /\ root' = root)]_vars
  /\ [][(Invokes("destroy") /\ invoked # <<>> /\ invoked[Len(invoked)].op = "destroy")
          => (doc' = doc /\ root' = root /\ container' = container)]_vars

====
